---- MODULE Spec2Model ----
\* Model of the lobby / session server (src/server.py): the four registry
\* mappings, the GameSession objects, one handler thread per connection
\* (handle_client) and the move-timer thread (check_move_timers); and of the
\* stream decoder of the client (receive_data, src/client_updated_fixed.py).
\*
\* Granularity.  A `with lock:` block is one atomic action.  Code that runs
\* outside the lock (the whole move path, the first half of quit_game) is cut
\* into one action per group of statements, so that the timer thread and the
\* other handlers interleave with it as the threads of the program do.
\* The guard of a branch of the main loop and the first read that follows it
\* (`conn in games` and games.get(conn); `(conn, addr) in lobby` and the lock)
\* are taken in one step.  A send raises only on a socket the server itself
\* has closed, or on None.
\*
\* The rules engine (python-chess) is outside the repository; it is modelled by
\* what the server uses of it: a board has a side to move, only moves of the
\* side to move are legal, push() hands the move to the other side, and a
\* position may be terminal.
EXTENDS Integers, Sequences, FiniteSets, TLC

\* ------------------------------------------------------------------ bounds

\* Sessions that may be created in one run (create_game is not sent after that).
MaxGames == 2
\* Messages the clients send in one run, after their first (join) message.
MaxMsgs == 3
\* Seconds the clock advances per tick: more than the move limit.
TickSeconds == 61
\* Messages the clients send in one run of SpecDeep, after their first message.
MaxMsgsDeep == 6
\* Messages in the stream the client decoder is fed in one run of SpecDecoder.
MaxStream == 2
\* Characters one socket.recv of the client returns at most.
MaxRead == 34
\* Characters of the stream that never completes a message, in SpecFlood.
FloodLen == 1100

\* ------------------------------------------------------------------ constants

MOVE_TIMEOUT_SECONDS == 60

\* client: the buffer length over which a parse failure empties the buffer.
BufferCeiling == 1000

None == "None"
WHITE == "White"
BLACK == "Black"
Colors == {WHITE, BLACK}

\* Connections; the address of a connection is modelled by the connection itself.
Conns == {"a", "b", "s"}
\* The connections whose first message asks for the role player, or spectator.
PlayerConns == {"a", "b"}
SpectatorConns == {"s"}
\* str(uuid.uuid4())[:8]: the n-th session created gets the n-th id.
NewGameId(n) == ToString(n)
GameIds == {NewGameId(n) : n \in 1..MaxGames}
\* Passwords a create_game may carry (None: no "password" key) and a join_game
\* may supply ("": no "password" key, the default of msg.get("password", "")).
CreatePasswords == {None, "pw"}
\* The passwords the dialog of the client sends for a private game: the text
\* entered, which may be empty.
PrivatePasswords == {"", "pw"}
JoinPasswords == {"", "pw", "bad"}

\* ------------------------------------------------------------------ rules engine

\* Move texts a client may send: a move of a white piece, plain ("w") or giving
\* checkmate ("w#"), a move of a black piece, plain ("b"), giving stalemate
\* ("b=") or capturing the last piece that could mate ("bx"), and text
\* chess.Move.from_uci rejects ("bad").
MoveTexts == {"w", "w#", "b", "b=", "bx", "bad"}
MoveSide(m) == IF m \in {"w", "w#"} THEN WHITE ELSE BLACK
Other(color) == IF color = WHITE THEN BLACK ELSE WHITE

\* A position is kept as its side to move and its terminal status.
InitialBoard == [turn |-> WHITE, term |-> "none"]
WellFormed(m) == m /= "bad"
\* is_checkmate, is_stalemate or is_insufficient_material.
IsTerminal(b) == b.term /= "none"
\* board.legal_moves: none after checkmate or stalemate; insufficient material
\* takes no move away from the side to move.
LegalMoves(b) ==
    IF b.term \in {"checkmate", "stalemate"} THEN {}
    ELSE {m \in MoveTexts : WellFormed(m) /\ MoveSide(m) = b.turn}
\* board.push; material that is insufficient stays insufficient.
Push(b, m) == [turn |-> Other(b.turn),
               term |-> IF b.term = "insufficient" \/ m = "bx" THEN "insufficient"
                        ELSE IF m = "w#" THEN "checkmate"
                        ELSE IF m = "b=" THEN "stalemate" ELSE "none"]

\* ------------------------------------------------------------------ state

VARIABLES
    lobby,          \* list of (conn, addr)
    games,          \* conn -> session id, None when conn is no key
    waiting_games,  \* session ids in insertion order (dict game_id -> session)
    spectators,     \* conn -> session id, None when conn is no key
    session,        \* the GameSession objects, by id
    nextId,         \* the next id a GameSession gets
    msgs,           \* messages the clients may still send to the main loops
    pc,             \* where each handler thread is
    assigned_role,  \* handle_client's local of that name
    hgame,          \* handle_client's local `game` while a move or quit is in progress
    hmove,          \* the move text of the move in progress
    hopp,           \* handle_client's local `opponent` while a quit is in progress
    closed,         \* connections whose handler has run conn.close()
    out,            \* the messages the last step sent, in order
    last,           \* what the last step was
    stream,         \* client: the message texts the server sends on one connection
    unread,         \* client: the characters of them socket.recv has not returned yet
    buffer,         \* client: receive_data's local of that name
    yielded         \* client: the messages receive_data has handed to process_message

vars == <<lobby, games, waiting_games, spectators, session, nextId, msgs, pc,
          assigned_role, hgame, hmove, hopp, closed, out, last,
          stream, unread, buffer, yielded>>

\* The state of the server, and of the stream decoder of one client.
server == <<lobby, games, waiting_games, spectators, session, nextId, msgs, pc,
            assigned_role, hgame, hmove, hopp, closed, out, last>>
decoder == <<stream, unread, buffer, yielded>>

registry == <<lobby, games, waiting_games, spectators>>

\* ------------------------------------------------------------------ helpers

InSeq(s, x) == \E i \in 1..Len(s) : s[i] = x
Count(s, x) == Cardinality({i \in 1..Len(s) : s[i] = x})
FirstIndex(s, x) == CHOOSE i \in 1..Len(s) : s[i] = x /\ \A j \in 1..(i - 1) : s[j] /= x
\* list.remove(x): drops the first occurrence.
RemoveFirst(s, x) == LET k == FirstIndex(s, x) IN SubSeq(s, 1, k - 1) \o SubSeq(s, k + 1, Len(s))

RECURSIVE Concat(_)
Concat(ss) == IF ss = <<>> THEN <<>> ELSE Head(ss) \o Concat(Tail(ss))

\* conn.send raises on a socket the server has closed and on None.
CanSend(c) == c /= None /\ c \notin closed
\* A send inside try/except: the message when it can be sent, nothing otherwise.
TrySend(c, m) == IF CanSend(c) THEN <<[to |-> c] @@ m>> ELSE <<>>

NewSession(conn, password) ==
    [board |-> InitialBoard, white_conn |-> conn, black_conn |-> None,
     players |-> [col \in Colors |-> IF col = WHITE THEN conn ELSE None],
     turn |-> WHITE, spectators |-> <<>>, elapsed |-> 0,
     creator_conn |-> conn, creator_address |-> conn,
     password |-> password, is_private |-> password /= None, black_addr |-> None]

Opponent(s, conn) == IF conn = s.white_conn THEN s.black_conn ELSE s.white_conn

\* A broadcast that gives up at the first recipient it cannot send to.
BroadcastUntilFailure(s, m) ==
    IF ~ CanSend(s.white_conn) THEN <<>>
    ELSE IF ~ CanSend(s.black_conn) THEN TrySend(s.white_conn, m)
    ELSE TrySend(s.white_conn, m) \o TrySend(s.black_conn, m)
           \o Concat([i \in 1..Len(s.spectators) |->
                  IF \A j \in 1..i : CanSend(s.spectators[j]) THEN TrySend(s.spectators[i], m) ELSE <<>>])

Broadcast(s, m) ==
    TrySend(s.white_conn, m) \o TrySend(s.black_conn, m)
      \o Concat([i \in 1..Len(s.spectators) |-> TrySend(s.spectators[i], m)])

LobbyState(lob, wg, ss) ==
    [type |-> "lobby_update",
     players |-> lob,
     available_games |-> [i \in 1..Len(wg) |->
        [id |-> wg[i], creator |-> ss[wg[i]].creator_address, is_private |-> ss[wg[i]].is_private]]]

BroadcastLobby(lob, wg, ss) ==
    Concat([i \in 1..Len(lob) |-> TrySend(lob[i], LobbyState(lob, wg, ss))])

\* What a step was: the operation, the connection whose handler took it, the
\* session it was about, the password or move text it carried, and whether the
\* thread held the coordination lock while it ran.
Step(op, c, g, arg, locked) == [op |-> op, conn |-> c, game |-> g, arg |-> arg, locked |-> locked]

\* ------------------------------------------------------------------ initial state

InitWith(budget) ==
    /\ lobby = <<>>
    /\ games = [c \in Conns |-> None]
    /\ waiting_games = <<>>
    /\ spectators = [c \in Conns |-> None]
    /\ session = [g \in GameIds |-> NewSession(None, None)]
    /\ nextId = 1
    /\ msgs = budget
    /\ pc = [c \in Conns |-> "init"]
    /\ assigned_role = [c \in Conns |-> None]
    /\ hgame = [c \in Conns |-> None]
    /\ hmove = [c \in Conns |-> None]
    /\ hopp = [c \in Conns |-> None]
    /\ closed = {}
    /\ out = <<>>
    /\ last = Step("start", None, None, None, FALSE)

\* No client stream is followed.
NoStream == stream = <<>> /\ unread = <<>> /\ buffer = <<>> /\ yielded = <<>>

Init == InitWith(MaxMsgs) /\ NoStream

\* ------------------------------------------------------------------ first message

\* join as player: the connection enters the lobby.
join_player(c) ==
    /\ pc[c] = "init"
    /\ lobby' = Append(lobby, c)
    /\ assigned_role' = [assigned_role EXCEPT ![c] = "player"]
    /\ pc' = [pc EXCEPT ![c] = "loop"]
    /\ out' = TrySend(c, [type |-> "info", msg |-> "joined_lobby"])
                \o BroadcastLobby(lobby', waiting_games, session)
    /\ last' = Step("join_player", c, None, None, TRUE)
    /\ UNCHANGED <<msgs, games, waiting_games, spectators, session, nextId, hgame, hmove, hopp, closed>>
    /\ UNCHANGED decoder

\* join as spectator of game_id: bound to the session when some key of games
\* maps to a session with that id, told "not found" otherwise.
join_spectator(c, game_id) ==
    /\ pc[c] = "init"
    /\ assigned_role' = [assigned_role EXCEPT ![c] = "spectator"]
    /\ pc' = [pc EXCEPT ![c] = "loop"]
    /\ \/ /\ \E k \in Conns : games[k] = game_id
          /\ session' = [session EXCEPT ![game_id].spectators = Append(@, c)]
          /\ spectators' = [spectators EXCEPT ![c] = game_id]
          /\ out' = TrySend(c, [type |-> "info", msg |-> "spectating", id |-> game_id])
                      \o TrySend(c, [type |-> "board", board |-> session[game_id].board])
                      \o TrySend(c, [type |-> "turn", turn |-> session[game_id].turn])
          /\ last' = Step("spectate", c, game_id, None, TRUE)
       \/ /\ ~ \E k \in Conns : games[k] = game_id
          /\ out' = TrySend(c, [type |-> "info", msg |-> "not_found", id |-> game_id,
                                active_games |-> {games[k] : k \in Conns} \ {None}])
          /\ last' = Step("spectate_not_found", c, game_id, None, TRUE)
          /\ UNCHANGED <<session, spectators>>
    /\ UNCHANGED <<msgs, lobby, games, waiting_games, nextId, hgame, hmove, hopp, closed>>
    /\ UNCHANGED decoder

\* A first message that is no join lets the connection into the lobby as if
\* it were one.
first_not_join_admitted(c) ==
    /\ pc[c] = "init"
    /\ lobby' = Append(lobby, c)
    /\ pc' = [pc EXCEPT ![c] = "loop"]
    /\ out' = TrySend(c, [type |-> "info", msg |-> "joined_lobby"])
    /\ last' = Step("first_not_join", c, None, None, FALSE)
    /\ UNCHANGED <<msgs, games, waiting_games, spectators, session, nextId,
                   assigned_role, hgame, hmove, hopp, closed>>
    /\ UNCHANGED decoder

\* The first message is not a join:
\* an error, and the handler returns through `finally`, which has nothing to
\* clean up for a connection without a role, and closes the socket.
first_not_join(c) ==
    /\ pc[c] = "init"
    /\ pc' = [pc EXCEPT ![c] = "done"]
    /\ closed' = closed \cup {c}
    /\ out' = TrySend(c, [type |-> "error", msg |-> "first_message_must_be_join"])
    /\ last' = Step("first_not_join", c, None, None, FALSE)
    /\ UNCHANGED <<msgs, lobby, games, waiting_games, spectators, session, nextId,
                   assigned_role, hgame, hmove, hopp>>
    /\ UNCHANGED decoder

\* ------------------------------------------------------------------ lobby operations

\* conn.recv in the main loop returns a message.
Receive(c) == pc[c] = "loop" /\ msgs > 0 /\ msgs' = msgs - 1

\* The guard of the create_game and join_game branches.
InLobbyAsPlayer(c) == pc[c] = "loop" /\ assigned_role[c] = "player" /\ InSeq(lobby, c)

\* The reply to create_game: " (Private game)" is put in when the password is
\* true as a condition, which None and the empty string are not.
CreatedInfo(game_id, password) ==
    [type |-> "info", msg |-> "created", id |-> game_id, private_msg |-> password \notin {None, ""}]

create_game(c, password) ==
    /\ Receive(c)
    /\ InLobbyAsPlayer(c)
    /\ nextId <= MaxGames
    /\ session' = [session EXCEPT ![NewGameId(nextId)] = NewSession(c, password)]
    /\ nextId' = nextId + 1
    /\ waiting_games' = Append(waiting_games, NewGameId(nextId))
    /\ lobby' = RemoveFirst(lobby, c)
    /\ games' = [games EXCEPT ![c] = NewGameId(nextId)]
    /\ out' = TrySend(c, CreatedInfo(NewGameId(nextId), password))
                \o BroadcastLobby(lobby', waiting_games', session')
    /\ last' = Step("create_game", c, NewGameId(nextId), password, TRUE)
    /\ UNCHANGED <<spectators, pc, assigned_role, hgame, hmove, hopp, closed>>
    /\ UNCHANGED decoder

\* The password test without the is_private test before it.
PasswordAlwaysCompared(s, provided) == provided = s.password

\* The password test of join_game: a private session admits only its own password.
PasswordAccepted(s, provided) == s.is_private => provided = s.password

\* The session after the joiner took the black seat.
Seated(s, c) == [s EXCEPT !.black_conn = c, !.players[BLACK] = c, !.black_addr = c]

join_game(c, game_id, provided_password) ==
    /\ Receive(c)
    /\ InLobbyAsPlayer(c)
    /\ \/ \* unknown id, or the session is no longer waiting
          /\ ~ InSeq(waiting_games, game_id)
          /\ out' = TrySend(c, [type |-> "error", msg |-> "not_found_or_full", id |-> game_id])
          /\ last' = Step("join_not_found", c, game_id, provided_password, TRUE)
          /\ UNCHANGED <<lobby, games, waiting_games, session, pc>>
       \/ \* private session, wrong password
          /\ InSeq(waiting_games, game_id)
          /\ ~ PasswordAccepted(session[game_id], provided_password)
          /\ out' = TrySend(c, [type |-> "error", msg |-> "incorrect_password"])
          /\ last' = Step("join_bad_password", c, game_id, provided_password, TRUE)
          /\ UNCHANGED <<lobby, games, waiting_games, session, pc>>
       \/ \* accepted
          /\ InSeq(waiting_games, game_id)
          /\ PasswordAccepted(session[game_id], provided_password)
          /\ games' = [games EXCEPT ![c] = game_id]
          /\ waiting_games' = RemoveFirst(waiting_games, game_id)
          /\ lobby' = RemoveFirst(lobby, c)
          /\ LET s == Seated(session[game_id], c) IN
             IF CanSend(s.white_conn)
             THEN /\ session' = [session EXCEPT ![game_id] = [s EXCEPT !.elapsed = 0]]
                  /\ out' = TrySend(s.white_conn, [type |-> "info", msg |-> "started", color |-> WHITE])
                              \o TrySend(c, [type |-> "info", msg |-> "started", color |-> BLACK])
                              \o Broadcast(s, [type |-> "turn", turn |-> WHITE])
                              \o Broadcast(s, [type |-> "board", board |-> s.board])
                              \o BroadcastLobby(lobby', waiting_games', session')
                  /\ pc' = pc
                  /\ last' = Step("join_game", c, game_id, provided_password, TRUE)
             ELSE \* creator_conn.send raises: the handler leaves through `finally`
                  /\ session' = [session EXCEPT ![game_id] = s]
                  /\ out' = <<>>
                  /\ pc' = [pc EXCEPT ![c] = "finally"]
                  /\ last' = Step("join_game_raised", c, game_id, provided_password, TRUE)
    /\ UNCHANGED <<spectators, nextId, assigned_role, hgame, hmove, hopp, closed>>
    /\ UNCHANGED decoder

\* create_game or join_game from a connection the guard of these branches
\* turns away (a player outside the lobby, a spectator): no later branch of
\* the main loop takes a message of these types, and the handler reads on.
lobby_op_ignored(c, type) ==
    /\ Receive(c)
    /\ ~ InLobbyAsPlayer(c)
    /\ out' = <<>>
    /\ last' = Step("lobby_op_ignored", c, None, type, FALSE)
    /\ UNCHANGED <<lobby, games, waiting_games, spectators, session, nextId, pc,
                   assigned_role, hgame, hmove, hopp, closed>>
    /\ UNCHANGED decoder

\* lobby_request of a player, in the lobby or not: the lobby state is
\* broadcast to the lobby.
lobby_request(c) ==
    /\ Receive(c)
    /\ assigned_role[c] = "player"
    /\ out' = BroadcastLobby(lobby, waiting_games, session)
    /\ last' = Step("lobby_request", c, None, None, TRUE)
    /\ UNCHANGED <<lobby, games, waiting_games, spectators, session, nextId, pc,
                   assigned_role, hgame, hmove, hopp, closed>>
    /\ UNCHANGED decoder

\* ------------------------------------------------------------------ move

\* The guard of the in-game branch: a player whose connection is a key of games.
InGameAsPlayer(c) == pc[c] = "loop" /\ assigned_role[c] = "player" /\ games[c] /= None

PlayerColor(s, c) == IF c = s.white_conn THEN WHITE ELSE BLACK

\* The turn test with the comparison inverted.
IsTurnOfInverted(s, c) == s.turn /= (IF c = s.white_conn THEN WHITE ELSE BLACK)

\* The turn test of a move message.
IsTurnOf(s, c) == s.turn = PlayerColor(s, c)

\* A move message arrives: the handler reads its session from games and tests
\* the turn.  No lock is held.
move_turn_check(c, m) ==
    /\ Receive(c)
    /\ InGameAsPlayer(c)
    /\ IF IsTurnOf(session[games[c]], c)
       THEN /\ pc' = [pc EXCEPT ![c] = "move_apply"]
            /\ hgame' = [hgame EXCEPT ![c] = games[c]]
            /\ hmove' = [hmove EXCEPT ![c] = m]
            /\ out' = <<>>
            /\ last' = Step("move_turn_ok", c, games[c], None, FALSE)
       ELSE /\ out' = TrySend(c, [type |-> "error", msg |-> "not_your_turn"])
            /\ last' = Step("move_not_your_turn", c, games[c], None, FALSE)
            /\ UNCHANGED <<pc, hgame, hmove>>
    /\ UNCHANGED <<lobby, games, waiting_games, spectators, session, nextId,
                   assigned_role, hopp, closed>>
    /\ UNCHANGED decoder

\* What board.push and the move broadcast leave of the session.
Pushed(s, m) == [s EXCEPT !.board = Push(s.board, m)]

\* Move.from_uci, the legality test and, for a legal move, board.push and the
\* move broadcast.  No lock is held.
move_apply(c) ==
    /\ pc[c] = "move_apply"
    /\ LET g == hgame[c]
           m == hmove[c]
           s == session[g]
       IN  \/ /\ ~ WellFormed(m)
              /\ out' = TrySend(c, [type |-> "error", msg |-> "invalid_move_format"])
              /\ last' = Step("move_malformed", c, g, m, FALSE)
              /\ pc' = [pc EXCEPT ![c] = "loop"]
              /\ hgame' = [hgame EXCEPT ![c] = None]
              /\ UNCHANGED session
           \/ /\ WellFormed(m)
              /\ m \notin LegalMoves(s.board)
              /\ out' = TrySend(c, [type |-> "error", msg |-> "illegal_move"])
              /\ last' = Step("move_illegal", c, g, m, FALSE)
              /\ pc' = [pc EXCEPT ![c] = "loop"]
              /\ hgame' = [hgame EXCEPT ![c] = None]
              /\ UNCHANGED session
           \/ /\ WellFormed(m)
              /\ m \in LegalMoves(s.board)
              /\ session' = [session EXCEPT ![g] = Pushed(s, m)]
              /\ out' = Broadcast(session'[g], [type |-> "move", move |-> m, board |-> session'[g].board])
              /\ last' = Step("move_pushed", c, g, m, FALSE)
              /\ pc' = [pc EXCEPT ![c] = "move_next_turn"]
              /\ UNCHANGED hgame
    /\ hmove' = [hmove EXCEPT ![c] = None]
    /\ UNCHANGED <<msgs, lobby, games, waiting_games, spectators, nextId,
                   assigned_role, hopp, closed>>
    /\ UNCHANGED decoder

\* GameSession.next_turn: the session after the turn switch and the timer reset.
NextTurned(s) == [s EXCEPT !.turn = Other(s.turn), !.elapsed = 0]

GameStatus(s) == IF IsTerminal(s.board) THEN "ended" ELSE "active"

\* GameSession.next_turn, called by the move handler.  No lock is held.
move_next_turn(c) ==
    /\ pc[c] = "move_next_turn"
    /\ LET g == hgame[c]
           s == NextTurned(session[g])
       IN  /\ session' = [session EXCEPT ![g] = s]
           /\ out' = (IF IsTerminal(s.board)
                      THEN Broadcast(s, [type |-> "info", msg |-> s.board.term,
                                         winner |-> Other(s.turn)])
                      ELSE <<>>)
                     \o Broadcast(s, [type |-> "turn", turn |-> s.turn, status |-> GameStatus(s),
                                      time_limit |-> MOVE_TIMEOUT_SECONDS])
                     \o Broadcast(s, [type |-> "board", board |-> s.board])
           /\ last' = Step("move_next_turn", c, g, None, FALSE)
           /\ IF GameStatus(s) = "ended"
              THEN pc' = [pc EXCEPT ![c] = "move_cleanup"] /\ UNCHANGED hgame
              ELSE pc' = [pc EXCEPT ![c] = "loop"] /\ hgame' = [hgame EXCEPT ![c] = None]
    /\ UNCHANGED <<msgs, lobby, games, waiting_games, spectators, nextId,
                   assigned_role, hmove, hopp, closed>>
    /\ UNCHANGED decoder

\* games without the keys in ks (del games[k] for each k that is a key).
Without(gs, ks) == [k \in Conns |-> IF k \in ks THEN None ELSE gs[k]]

\* The cleanup after a move that ended the game, under the lock: both seats
\* leave games and are appended to the lobby.  A send to a closed seat raises
\* with the rest undone; the `except` of the move branch catches it, answers
\* the mover with the malformed-move error and the handler reads on.
move_cleanup(c) ==
    /\ pc[c] = "move_cleanup"
    /\ LET g == hgame[c]
           s == session[g]
           w == s.white_conn
           b == s.black_conn
           b_addr == s.black_addr
           info == [type |-> "info", msg |-> "game_ended_returned_to_lobby"]
           caught == [type |-> "error", msg |-> "invalid_move_format"]
       IN  /\ games' = Without(games, {w, b})
           /\ pc' = [pc EXCEPT ![c] = "loop"]
           /\ IF ~ CanSend(w)
              THEN /\ lobby' = Append(lobby, w)
                   /\ out' = TrySend(c, caught)
                   /\ last' = Step("move_cleanup_raised", c, g, None, TRUE)
              ELSE IF b /= None /\ b_addr /= None /\ ~ CanSend(b)
              THEN /\ lobby' = Append(Append(lobby, w), b)
                   /\ out' = TrySend(w, info) \o TrySend(c, caught)
                   /\ last' = Step("move_cleanup_raised", c, g, None, TRUE)
              ELSE /\ lobby' = IF b /= None /\ b_addr /= None
                               THEN Append(Append(lobby, w), b) ELSE Append(lobby, w)
                   /\ out' = TrySend(w, info)
                              \o (IF b /= None /\ b_addr /= None THEN TrySend(b, info) ELSE <<>>)
                              \o BroadcastLobby(lobby', waiting_games, session)
                   /\ last' = Step("move_cleanup", c, g, None, TRUE)
    /\ hgame' = [hgame EXCEPT ![c] = None]
    /\ UNCHANGED <<msgs, waiting_games, spectators, session, nextId,
                   assigned_role, hmove, hopp, closed>>
    /\ UNCHANGED decoder

\* ------------------------------------------------------------------ quit_game

\* quit_game, before the lock: the opponent is read and notified (a send to a
\* closed opponent raises), the spectators are notified.
quit_notify(c) ==
    /\ Receive(c)
    /\ InGameAsPlayer(c)
    /\ LET g == games[c]
           s == session[g]
           opponent == Opponent(s, c)
           over == [type |-> "game_over", result |-> PlayerColor(s, c), reason |-> "quit"]
       IN  IF opponent /= None /\ ~ CanSend(opponent)
           THEN /\ pc' = [pc EXCEPT ![c] = "finally"]
                /\ out' = <<>>
                /\ last' = Step("quit_raised", c, g, None, FALSE)
                /\ UNCHANGED <<hgame, hopp>>
           ELSE /\ pc' = [pc EXCEPT ![c] = "quit_lock"]
                /\ hgame' = [hgame EXCEPT ![c] = g]
                /\ hopp' = [hopp EXCEPT ![c] = opponent]
                /\ out' = TrySend(opponent, over)
                            \o Concat([i \in 1..Len(s.spectators) |-> TrySend(s.spectators[i], over)])
                /\ last' = Step("quit_notify", c, g, None, FALSE)
    /\ UNCHANGED <<lobby, games, waiting_games, spectators, session, nextId,
                   assigned_role, hmove, closed>>
    /\ UNCHANGED decoder

\* The address quit_game and the disconnect cleanup find for the opponent.
OpponentAddr(s, opponent) ==
    IF opponent = s.white_conn THEN s.creator_address
    ELSE IF opponent /= None THEN s.black_addr ELSE None

\* What the lock section of quit_game leaves of the four registry mappings:
\* conn and the opponent read before the lock leave games and are appended to
\* the lobby; waiting_games and spectators are not touched.
QuitTeardown(c, s, opponent) ==
    [games |-> Without(games, {c, opponent}),
     lobby |-> IF opponent /= None /\ OpponentAddr(s, opponent) /= None
               THEN Append(Append(lobby, c), opponent) ELSE Append(lobby, c),
     waiting_games |-> waiting_games,
     spectators |-> spectators]

\* quit_game, under the lock: both players leave games and enter the lobby.
\* del games[conn] raises when another thread has removed the key meanwhile.
quit_lock(c) ==
    /\ pc[c] = "quit_lock"
    /\ LET g == hgame[c]
           s == session[g]
           opponent == hopp[c]
           opponent_addr == OpponentAddr(s, opponent)
       IN  IF games[c] = None
           THEN /\ pc' = [pc EXCEPT ![c] = "finally"]
                /\ out' = <<>>
                /\ last' = Step("quit_lock_raised", c, g, None, TRUE)
                /\ UNCHANGED <<lobby, games>>
           ELSE /\ pc' = [pc EXCEPT ![c] = "loop"]
                /\ games' = QuitTeardown(c, s, opponent).games
                /\ lobby' = QuitTeardown(c, s, opponent).lobby
                /\ out' = (IF opponent /= None /\ opponent_addr /= None
                           THEN TrySend(opponent, [type |-> "info", msg |-> "opponent_quit_returned_to_lobby"])
                           ELSE <<>>)
                          \o TrySend(c, [type |-> "info", msg |-> "you_quit_returning_to_lobby"])
                          \o BroadcastLobby(lobby', waiting_games, session)
                /\ last' = Step("quit_game", c, g, None, TRUE)
    /\ waiting_games' = QuitTeardown(c, session[hgame[c]], hopp[c]).waiting_games
    /\ spectators' = QuitTeardown(c, session[hgame[c]], hopp[c]).spectators
    /\ hgame' = [hgame EXCEPT ![c] = None]
    /\ hopp' = [hopp EXCEPT ![c] = None]
    /\ UNCHANGED <<msgs, session, nextId, assigned_role, hmove, closed>>
    /\ UNCHANGED decoder

\* ------------------------------------------------------------------ disconnect

\* The first waiting session the connection created, None when there is none.
CreatedWaiting(wg, ss, c) ==
    IF \E i \in 1..Len(wg) : ss[wg[i]].creator_conn = c
    THEN wg[CHOOSE i \in 1..Len(wg) : /\ ss[wg[i]].creator_conn = c
                                      /\ \A j \in 1..(i - 1) : ss[wg[j]].creator_conn /= c]
    ELSE None

\* What the player branch of the `finally` block leaves of the four registry
\* mappings: conn leaves the lobby, the first waiting session it created
\* leaves waiting_games, and when conn is a key of games, conn and its
\* opponent leave games, the opponent is appended to the lobby and the
\* session's spectators whose sockets are open leave spectators.
DisconnectTeardown(c) ==
    LET lobby1 == IF InSeq(lobby, c) THEN RemoveFirst(lobby, c) ELSE lobby
        game_to_remove == CreatedWaiting(waiting_games, session, c)
        s == session[games[c]]
        other == Opponent(s, c)
    IN  [lobby |-> IF games[c] /= None /\ other /= None /\ OpponentAddr(s, other) /= None
                   THEN Append(lobby1, other) ELSE lobby1,
         games |-> IF games[c] /= None THEN Without(games, {c, other}) ELSE games,
         waiting_games |-> IF game_to_remove /= None
                           THEN RemoveFirst(waiting_games, game_to_remove) ELSE waiting_games,
         spectators |-> IF games[c] /= None
                        THEN [k \in Conns |->
                                IF InSeq(s.spectators, k) /\ CanSend(k) THEN None ELSE spectators[k]]
                        ELSE spectators]

\* The `finally` block of handle_client, under the lock, and conn.close().
\* It runs when recv returns no data (the client closed) and after an
\* exception in the handler.
finally_cleanup(c) ==
    /\ pc[c] \in {"loop", "finally"}
    /\ pc' = [pc EXCEPT ![c] = "done"]
    /\ closed' = closed \cup {c}
    /\ \/ /\ assigned_role[c] = "player"
          /\ LET lobby1 == IF InSeq(lobby, c) THEN RemoveFirst(lobby, c) ELSE lobby
                 out1 == IF InSeq(lobby, c) THEN BroadcastLobby(lobby1, waiting_games, session) ELSE <<>>
                 game_to_remove == CreatedWaiting(waiting_games, session, c)
                 waiting1 == IF game_to_remove /= None
                             THEN RemoveFirst(waiting_games, game_to_remove) ELSE waiting_games
                 out2 == IF game_to_remove /= None
                         THEN BroadcastLobby(lobby1, waiting1, session) ELSE <<>>
             IN  /\ lobby' = DisconnectTeardown(c).lobby
                 /\ games' = DisconnectTeardown(c).games
                 /\ waiting_games' = DisconnectTeardown(c).waiting_games
                 /\ spectators' = DisconnectTeardown(c).spectators
                 /\ IF games[c] = None
                    THEN /\ out' = out1 \o out2
                         /\ last' = Step("disconnect", c, None, None, TRUE)
                    ELSE LET g == games[c]
                             s == session[g]
                             other == Opponent(s, c)
                             other_addr == OpponentAddr(s, other)
                         IN  /\ out' = out1 \o out2
                                  \o TrySend(other, [type |-> "info", msg |-> "opponent_disconnected"])
                                  \o TrySend(other, [type |-> "game_over", result |-> "opponent_disconnected",
                                                     reason |-> "disconnection"])
                                  \o Concat([i \in 1..Len(s.spectators) |->
                                        TrySend(s.spectators[i], [type |-> "info", msg |-> "ended_by_disconnection"])])
                                  \o BroadcastLobby(lobby', waiting1, session)
                             /\ last' = Step("disconnect_seated", c, g, None, TRUE)
       \/ /\ assigned_role[c] = "spectator"
          /\ spectators' = [spectators EXCEPT ![c] = None]
          /\ out' = <<>>
          /\ last' = Step("disconnect_spectator", c, spectators[c], None, TRUE)
          /\ UNCHANGED <<lobby, games, waiting_games>>
       \/ \* the first read raised: no role, nothing to clean up
          /\ assigned_role[c] = None
          /\ out' = <<>>
          /\ last' = Step("disconnect_no_role", c, None, None, TRUE)
          /\ UNCHANGED <<lobby, games, waiting_games, spectators>>
    /\ hgame' = [hgame EXCEPT ![c] = None]
    /\ hopp' = [hopp EXCEPT ![c] = None]
    /\ hmove' = [hmove EXCEPT ![c] = None]
    /\ UNCHANGED <<msgs, session, nextId, assigned_role>>
    /\ UNCHANGED decoder

\* ------------------------------------------------------------------ move timer

\* The sessions a scan of check_move_timers visits: set(games.values()).
InGames(g) == \E k \in Conns : games[k] = g

\* The sessions a scan of check_move_timers passes the turn of.
TimedOut(g) ==
    /\ InGames(g)
    /\ session[g].elapsed > MOVE_TIMEOUT_SECONDS
    /\ session[g].players[session[g].turn] /= None

\* The session after a timeout that passes the turn and leaves the timer running.
TimeoutPassedNoReset(s) == [s EXCEPT !.turn = Other(s.turn)]

\* The session after a timeout: timer reset, turn passed, board untouched.
TimeoutPassed(s) == [s EXCEPT !.elapsed = 0, !.turn = Other(s.turn)]

\* The timeout messages with the routine turn update built before the turn switch.
TimeoutMessagesStaleTurn(s0, s1) ==
    Broadcast(s0, [type |-> "info", msg |-> "took_too_long", color |-> s0.turn])
      \o Broadcast(s1, [type |-> "timeout_sync", timeout_player |-> s0.turn,
                        board |-> s1.board, next_turn |-> Other(s0.turn)])
      \o Broadcast(s1, [type |-> "board", board |-> s1.board])
      \o Broadcast(s0, [type |-> "turn", turn |-> s0.turn, status |-> "active",
                        time_limit |-> MOVE_TIMEOUT_SECONDS])

\* The messages of the timeout policy that ends the game: one game_over.
TimeoutMessagesGameOver(s0, s1) ==
    Broadcast(s0, [type |-> "game_over", result |-> s0.turn, reason |-> "timeout"])

TimeoutMessages(s0, s1) ==
    Broadcast(s0, [type |-> "info", msg |-> "took_too_long", color |-> s0.turn])
      \o Broadcast(s1, [type |-> "timeout_sync", timeout_player |-> s0.turn,
                        board |-> s1.board, next_turn |-> Other(s0.turn)])
      \o Broadcast(s1, [type |-> "board", board |-> s1.board])
      \o Broadcast(s1, [type |-> "turn", turn |-> Other(s0.turn), status |-> "active",
                        time_limit |-> MOVE_TIMEOUT_SECONDS])

\* One scan of check_move_timers that finds at least one session timed out
\* (a scan that finds none changes nothing).  Under the lock.
check_move_timers ==
    /\ \E g \in GameIds : TimedOut(g)
    /\ session' = [g \in GameIds |->
                     IF TimedOut(g) THEN TimeoutPassed(session[g]) ELSE session[g]]
    /\ out' = Concat([n \in 1..MaxGames |->
                     IF TimedOut(NewGameId(n))
                     THEN TimeoutMessages(session[NewGameId(n)], session'[NewGameId(n)]) ELSE <<>>])
    /\ last' = Step("timeout", None, None, {g \in GameIds : TimedOut(g)}, TRUE)
    /\ UNCHANGED <<msgs, lobby, games, waiting_games, spectators, nextId, pc,
                   assigned_role, hgame, hmove, hopp, closed>>
    /\ UNCHANGED decoder

\* Time passes.  A session keeps the time since its last_move_time
\* (time.time() - last_move_time), counted up to the first value over the limit;
\* assigning time.time() to last_move_time sets it to 0.  The time is kept for
\* the sessions games refers to, the ones check_move_timers reads it of: a
\* session outside games enters it only through join_game, which resets it.
Aged(s) == [s EXCEPT !.elapsed = IF @ + TickSeconds > MOVE_TIMEOUT_SECONDS
                                 THEN MOVE_TIMEOUT_SECONDS + 1 ELSE @ + TickSeconds]

tick ==
    /\ \E g \in GameIds : InGames(g) /\ Aged(session[g]) /= session[g]
    /\ session' = [g \in GameIds |-> IF InGames(g) THEN Aged(session[g]) ELSE session[g]]
    /\ out' = <<>>
    /\ last' = Step("tick", None, None, None, FALSE)
    /\ UNCHANGED <<msgs, lobby, games, waiting_games, spectators, nextId, pc,
                   assigned_role, hgame, hmove, hopp, closed>>
    /\ UNCHANGED decoder

\* ------------------------------------------------------------------ client stream decoder

\* Characters are one-character strings, a text is a sequence of them.
Quote == "\""
Backslash == "\\"
Space == " "

\* Texts json.dumps makes of a message (separators ", " and ": "): a string
\* with a space, with a brace, with an escaped quote, and a nested object.
TextSpace == <<"{", Quote, "a", Quote, ":", Space, Quote, "b", Space, "c", Quote, "}">>
TextBrace == <<"{", Quote, "a", Quote, ":", Space, Quote, "}", Quote, "}">>
TextEscape == <<"{", Quote, "a", Quote, ":", Space, Quote, Backslash, Quote, Quote, "}">>
TextNested == <<"{", Quote, "a", Quote, ":", Space, "{", Quote, "b", Quote, ":", Space, Quote, "c", Quote, "}", "}">>
Texts == {TextSpace, TextBrace, TextEscape, TextNested}

\* What the server sends on one connection: one message or several in a row.
Streams == UNION {[1..n -> Texts] : n \in 1..MaxStream}

\* str.strip(): the text without its leading and trailing whitespace.
RECURSIVE LStrip(_)
LStrip(t) == IF t /= <<>> /\ Head(t) = Space THEN LStrip(Tail(t)) ELSE t
RECURSIVE RStrip(_)
RStrip(t) == IF t /= <<>> /\ t[Len(t)] = Space THEN RStrip(SubSeq(t, 1, Len(t) - 1)) ELSE t
Strip(t) == RStrip(LStrip(t))

\* json.loads, by what it accepts: one value (an object of "key": value
\* members, or a string), whitespace around it and between its tokens, and
\* nothing after it.  Each Parse operator gives the index after what it
\* parsed from index i, 0 when the text has no such thing there.
RECURSIVE SkipWs(_, _)
SkipWs(t, i) == IF i <= Len(t) /\ t[i] = Space THEN SkipWs(t, i + 1) ELSE i

RECURSIVE StringEnd(_, _)
StringEnd(t, j) ==
    IF j > Len(t) THEN 0
    ELSE IF t[j] = Quote THEN j + 1
    ELSE IF t[j] = Backslash
         THEN IF j + 1 <= Len(t) /\ t[j + 1] \in {Quote, Backslash} THEN StringEnd(t, j + 2) ELSE 0
    ELSE StringEnd(t, j + 1)

ParseString(t, i) == IF i <= Len(t) /\ t[i] = Quote THEN StringEnd(t, i + 1) ELSE 0

RECURSIVE ParseValue(_, _)
RECURSIVE ParseMembers(_, _)
ParseMembers(t, i) ==
    LET k == ParseString(t, i)
        c == SkipWs(t, k)
        v == IF k /= 0 /\ c <= Len(t) /\ t[c] = ":" THEN ParseValue(t, SkipWs(t, c + 1)) ELSE 0
        n == SkipWs(t, v)
    IN  IF v = 0 \/ n > Len(t) THEN 0
        ELSE IF t[n] = "}" THEN n + 1
        ELSE IF t[n] = "," THEN ParseMembers(t, SkipWs(t, n + 1))
        ELSE 0

ParseObject(t, i) ==
    LET k == SkipWs(t, i + 1)
    IN  IF k > Len(t) THEN 0 ELSE IF t[k] = "}" THEN k + 1 ELSE ParseMembers(t, k)

ParseValue(t, i) ==
    IF i = 0 \/ i > Len(t) THEN 0
    ELSE IF t[i] = Quote THEN ParseString(t, i)
    ELSE IF t[i] = "{" THEN ParseObject(t, i)
    ELSE 0

IsJson(t) ==
    LET e == ParseValue(t, SkipWs(t, 1))
    IN  e /= 0 /\ SkipWs(t, e) = Len(t) + 1

\* The value a JSON text denotes, kept as the text without the whitespace
\* between its tokens: two texts denote the same value iff these are equal.
RECURSIVE ValueFrom(_, _, _, _)
ValueFrom(t, i, in_string, escaped) ==
    IF i > Len(t) THEN <<>>
    ELSE IF escaped THEN <<t[i]>> \o ValueFrom(t, i + 1, in_string, FALSE)
    ELSE IF t[i] = Backslash THEN <<t[i]>> \o ValueFrom(t, i + 1, in_string, in_string)
    ELSE IF t[i] = Quote THEN <<t[i]>> \o ValueFrom(t, i + 1, ~ in_string, FALSE)
    ELSE IF t[i] = Space /\ ~ in_string THEN ValueFrom(t, i + 1, in_string, FALSE)
    ELSE <<t[i]>> \o ValueFrom(t, i + 1, in_string, FALSE)

JSONDecodeError == <<"JSONDecodeError">>
JsonLoads(t) == IF IsJson(t) THEN ValueFrom(t, 1, FALSE, FALSE) ELSE JSONDecodeError

\* The locals of the scan of receive_data for the end of the first complete
\* object of the buffer, as they are before the loop over the characters.
ScanStart == [msg_end |-> 0, json_depth |-> 0, in_string |-> FALSE, escape_next |-> FALSE]

\* One round of the loop with the backslash taken as an ordinary character.
ScanCharEscapesIgnored(st, char, i) ==
    IF char = Quote THEN [st EXCEPT !.in_string = ~ @]
    ELSE IF ~ st.in_string /\ char = "{" THEN [st EXCEPT !.json_depth = @ + 1]
    ELSE IF ~ st.in_string /\ char = "}"
         THEN [st EXCEPT !.json_depth = @ - 1,
                         !.msg_end = IF st.json_depth - 1 = 0 THEN i ELSE 0]
    ELSE st

\* One round of the loop, on the i-th character of the buffer: msg_end is set
\* (and the loop left) at the brace that brings the depth back to 0.
ScanChar(st, char, i) ==
    IF st.escape_next THEN [st EXCEPT !.escape_next = FALSE]
    ELSE IF char = Backslash THEN [st EXCEPT !.escape_next = TRUE]
    ELSE IF char = Quote THEN [st EXCEPT !.in_string = ~ @]
    ELSE IF ~ st.in_string /\ char = "{" THEN [st EXCEPT !.json_depth = @ + 1]
    ELSE IF ~ st.in_string /\ char = "}"
         THEN [st EXCEPT !.json_depth = @ - 1,
                         !.msg_end = IF st.json_depth - 1 = 0 THEN i ELSE 0]
    ELSE st

\* The rounds of the loop on the characters lo..hi in their order, from the
\* locals st, up to the round that leaves the loop.  (The range is halved so
\* that a long buffer needs few nested evaluations; the rounds and their order
\* are those of the loop.)
RECURSIVE ScanFrom(_, _, _, _)
ScanFrom(buf, lo, hi, st) ==
    IF lo > hi \/ st.msg_end /= 0 THEN st
    ELSE IF lo = hi THEN ScanChar(st, buf[lo], lo)
    ELSE ScanFrom(buf, ((lo + hi) \div 2) + 1, hi, ScanFrom(buf, lo, (lo + hi) \div 2, st))

\* msg_end after the scan: the number of characters up to the closing brace
\* of the first complete object, and 0 when there is none.
MsgEnd(buf) == ScanFrom(buf, 1, Len(buf), ScanStart).msg_end

\* What is left of the buffer once the first msg_end characters are taken.
Remainder(buf, msg_end) == Strip(SubSeq(buf, msg_end + 1, Len(buf)))

\* The inner loop of receive_data: complete objects are cut off the front of
\* the buffer and handed on until the buffer is empty, holds no complete
\* object, or json.loads raises (the text cut off is then lost, and a buffer
\* of more than 1000 characters is emptied).
RECURSIVE Drain(_, _)
Drain(buf, ys) ==
    LET msg_end == MsgEnd(buf)
        msg == JsonLoads(SubSeq(buf, 1, msg_end))
        left == Remainder(buf, msg_end)
    IN  IF buf = <<>> \/ msg_end = 0 THEN [buffer |-> buf, yielded |-> ys]
        ELSE IF msg = JSONDecodeError
             THEN [buffer |-> IF Len(left) > BufferCeiling THEN <<>> ELSE left, yielded |-> ys]
        ELSE Drain(left, Append(ys, msg))

\* One round of the outer loop of receive_data: socket.recv returns the next n
\* characters of the stream, they are appended to the buffer, and the inner
\* loop runs.
receive_data(n) ==
    /\ n \in 1..Len(unread)
    /\ unread' = SubSeq(unread, n + 1, Len(unread))
    /\ buffer' = Drain(buffer \o SubSeq(unread, 1, n), yielded).buffer
    /\ yielded' = Drain(buffer \o SubSeq(unread, 1, n), yielded).yielded
    /\ UNCHANGED <<stream, server>>

\* ------------------------------------------------------------------ reads json.loads rejects

\* What one conn.recv of the server may return of a client's stream of
\* well-formed messages: one message, two messages sent in a row, the first
\* part of a message (the rest is what a later read would return); and text
\* that is no JSON.
ReadTexts == {TextSpace, TextBrace}
TwoInOne == {m1 \o m2 : m1, m2 \in ReadTexts}
FirstParts == UNION {{SubSeq(m, 1, k) : k \in 1..(Len(m) - 1)} : m \in ReadTexts}
NoJson == {<<"{", Quote, "a", Quote, ":", "}">>}
ServerReads == ReadTexts \cup TwoInOne \cup FirstParts \cup NoJson

ReadKind(data) ==
    IF data \in ReadTexts THEN "one_message"
    ELSE IF data \in TwoInOne THEN "two_messages"
    ELSE IF data \in FirstParts THEN "first_part"
    ELSE "no_json"
ReadKinds == {ReadKind(data) : data \in ServerReads}

\* The kinds of read on which json.loads(data) raises, and on which it does not.
Undecodable == {ReadKind(data) : data \in {d \in ServerReads : JsonLoads(d) = JSONDecodeError}}
Decodable == {ReadKind(data) : data \in {d \in ServerReads : JsonLoads(d) /= JSONDecodeError}}

\* json.loads raises on what conn.recv returned, as the first read of the
\* connection or in the main loop: the handler leaves through `except` and
\* `finally`.
recv_raised(c, kind) ==
    /\ kind \in Undecodable
    /\ \/ pc[c] = "init" /\ UNCHANGED msgs
       \/ Receive(c)
    /\ pc' = [pc EXCEPT ![c] = "finally"]
    /\ out' = <<>>
    /\ last' = Step("recv_raised", c, None, kind, FALSE)
    /\ UNCHANGED <<lobby, games, waiting_games, spectators, session, nextId,
                   assigned_role, hgame, hmove, hopp, closed>>
    /\ UNCHANGED decoder

\* A JSON object without a "type" member arrives in the main loop: no branch
\* of a player in the lobby or of an unbound spectator takes it; the in-game
\* branch and the spectator branch read msg["type"], which raises.
recv_untyped(c, kind) ==
    /\ kind \in Decodable
    /\ Receive(c)
    /\ IF \/ assigned_role[c] = "player" /\ games[c] /= None
          \/ assigned_role[c] = "spectator" /\ spectators[c] /= None
       THEN /\ pc' = [pc EXCEPT ![c] = "finally"]
            /\ last' = Step("recv_untyped_raised", c, None, kind, FALSE)
       ELSE /\ pc' = pc
            /\ last' = Step("recv_untyped_ignored", c, None, kind, FALSE)
    /\ out' = <<>>
    /\ UNCHANGED <<lobby, games, waiting_games, spectators, session, nextId,
                   assigned_role, hgame, hmove, hopp, closed>>
    /\ UNCHANGED decoder

\* ------------------------------------------------------------------ specification

Next ==
    \/ \E c \in PlayerConns : join_player(c)
    \/ \E c \in SpectatorConns, g \in GameIds : join_spectator(c, g)
    \/ \E c \in Conns : first_not_join(c)
    \/ \E c \in Conns, p \in CreatePasswords : create_game(c, p)
    \/ \E c \in Conns, g \in GameIds, p \in JoinPasswords : join_game(c, g, p)
    \/ \E c \in Conns, m \in MoveTexts : move_turn_check(c, m)
    \/ \E c \in Conns : move_apply(c)
    \/ \E c \in Conns : move_next_turn(c)
    \/ \E c \in Conns : move_cleanup(c)
    \/ \E c \in Conns : quit_notify(c)
    \/ \E c \in Conns : quit_lock(c)
    \/ \E c \in Conns : finally_cleanup(c)
    \/ check_move_timers
    \/ tick

Spec == Init /\ [][Next]_vars

\* Longer runs of fewer clients: two players and no spectator, sessions
\* without password, and no move limit reached.
InitDeep == InitWith(MaxMsgsDeep) /\ NoStream

NextDeep ==
    \/ \E c \in PlayerConns : join_player(c)
    \/ \E c \in PlayerConns : create_game(c, None)
    \/ \E c \in PlayerConns, g \in GameIds : join_game(c, g, "")
    \/ \E c \in PlayerConns, m \in MoveTexts : move_turn_check(c, m)
    \/ \E c \in PlayerConns : move_apply(c)
    \/ \E c \in PlayerConns : move_next_turn(c)
    \/ \E c \in PlayerConns : move_cleanup(c)
    \/ \E c \in PlayerConns : quit_notify(c)
    \/ \E c \in PlayerConns : quit_lock(c)
    \/ \E c \in PlayerConns : finally_cleanup(c)

SpecDeep == InitDeep /\ [][NextDeep]_vars

\* Every kind of read and message, before any move limit is reached: the
\* reads json.loads rejects, the messages no branch takes, lobby_request.
NextWire ==
    \/ \E c \in PlayerConns : join_player(c)
    \/ \E c \in SpectatorConns, g \in GameIds : join_spectator(c, g)
    \/ \E c \in Conns : first_not_join(c)
    \/ \E c \in Conns, kind \in ReadKinds : recv_raised(c, kind)
    \/ \E c \in Conns, kind \in ReadKinds : recv_untyped(c, kind)
    \/ \E c \in Conns, p \in CreatePasswords : create_game(c, p)
    \/ \E c \in Conns, g \in GameIds, p \in JoinPasswords : join_game(c, g, p)
    \/ \E c \in Conns, type \in {"create_game", "join_game"} : lobby_op_ignored(c, type)
    \/ \E c \in Conns : lobby_request(c)
    \/ \E c \in Conns, m \in MoveTexts : move_turn_check(c, m)
    \/ \E c \in Conns : move_apply(c)
    \/ \E c \in Conns : move_next_turn(c)
    \/ \E c \in Conns : move_cleanup(c)
    \/ \E c \in Conns : quit_notify(c)
    \/ \E c \in Conns : quit_lock(c)
    \/ \E c \in Conns : finally_cleanup(c)

SpecWire == Init /\ [][NextWire]_vars

\* Private sessions: two players, sessions with each password the client may
\* send, no move and no move limit reached.
NextPw ==
    \/ \E c \in PlayerConns : join_player(c)
    \/ \E c \in PlayerConns, p \in PrivatePasswords : create_game(c, p)
    \/ \E c \in PlayerConns, g \in GameIds, p \in JoinPasswords : join_game(c, g, p)
    \/ \E c \in PlayerConns : lobby_request(c)
    \/ \E c \in PlayerConns : quit_notify(c)
    \/ \E c \in PlayerConns : quit_lock(c)
    \/ \E c \in PlayerConns : finally_cleanup(c)

SpecPw == Init /\ [][NextPw]_vars

\* The stream decoder of one client fed one stream, cut into reads of any sizes.
InitDecoder ==
    /\ InitWith(0)
    /\ stream \in Streams
    /\ unread = Concat(stream)
    /\ buffer = <<>>
    /\ yielded = <<>>

NextDecoder == \E n \in 1..MaxRead : receive_data(n)

SpecDecoder == InitDecoder /\ [][NextDecoder]_vars

\* ------------------------------------------------------------------ claims

\* The sessions that are still in waiting_games or games.
LiveSessions == {g \in GameIds : InSeq(waiting_games, g) \/ InGames(g)}

HoldsSeat(c) == \E g \in LiveSessions : session[g].white_conn = c \/ session[g].black_conn = c

RoleCount(c) == (IF InSeq(lobby, c) THEN 1 ELSE 0) + (IF HoldsSeat(c) THEN 1 ELSE 0)
                  + (IF spectators[c] /= None THEN 1 ELSE 0)

\* C1: every connection is in at most one of the roles lobby member, occupant
\* of a seat of a session still in waiting_games or games, bound spectator.
C1_OneRolePerConnection == \A c \in Conns : RoleCount(c) <= 1

\* A session whose second player has joined.
BothSeated(g) == session[g].black_conn /= None

\* C2: the turn of a session with both seats taken equals the side to move of
\* its board, whenever no accepted move is between its board.push and its
\* next_turn.
C2_TurnMatchesBoard ==
    \A g \in LiveSessions :
        (BothSeated(g) /\ ~ \E c \in Conns : pc[c] = "move_next_turn" /\ hgame[c] = g)
            => session[g].turn = session[g].board.turn

\* C3: in a session with both seats taken, a move is applied to the board only
\* while the session's turn is the sender's color and the move is legal, and is
\* refused only when one of the two fails.  (board.push leaves the turn as it
\* is, so the state after the push shows the turn at the moment of the push.)
C3_AcceptedIffTurnAndLegal ==
    /\ (last.op = "move_pushed" /\ BothSeated(last.game)) =>
          /\ session[last.game].turn = PlayerColor(session[last.game], last.conn)
          /\ session[last.game].board.turn = Other(MoveSide(last.arg))
    /\ (last.op = "move_not_your_turn" /\ BothSeated(last.game)) =>
          session[last.game].turn /= PlayerColor(session[last.game], last.conn)
    /\ (last.op \in {"move_illegal", "move_malformed"} /\ BothSeated(last.game)) =>
          last.arg \notin LegalMoves(session[last.game].board)

MoveRejectOps == {"move_not_your_turn", "move_illegal", "move_malformed"}

\* C4: a refused move (out of turn, illegal, malformed) leaves every session
\* (board, turn, timer) and the four registry mappings as they were, and sends
\* one message, an error, to the sender and to nobody else; the turn test that
\* precedes a refusal for illegality changes and sends nothing either.
C4_RejectedMoveChangesNothing ==
    [][/\ last'.op = "move_turn_ok" =>
            session' = session /\ registry' = registry /\ out' = <<>>
       /\ last'.op \in MoveRejectOps =>
          /\ session' = session
          /\ registry' = registry
          /\ Len(out') = 1 /\ out'[1].to = last'.conn /\ out'[1].type = "error"
          /\ last'.op = "move_not_your_turn" =>
                session[last'.game].turn /= PlayerColor(session[last'.game], last'.conn)
          /\ last'.op = "move_illegal" =>
                /\ WellFormed(last'.arg)
                /\ \/ MoveSide(last'.arg) /= session[last'.game].board.turn
                   \/ IsTerminal(session[last'.game].board)
          /\ last'.op = "move_malformed" => ~ WellFormed(last'.arg)
      ]_vars

\* An illegal move was refused in a session with both seats taken and a spectator.
C4_Witness ==
    /\ last.op = "move_illegal"
    /\ session[last.game].black_conn \notin {None, last.conn}
    /\ session[last.game].spectators /= <<>>
    /\ out = <<[to |-> last.conn, type |-> "error", msg |-> "illegal_move"]>>

\* C5: after an accepted move in a session with both seats taken the turn is
\* the mover's opponent's and the timer is fresh: the timer thread has not
\* passed the turn between the move's turn test and its own turn switch.
C5_NoDoubleFlip ==
    (last.op = "move_next_turn" /\ BothSeated(last.game)) =>
        /\ session[last.game].turn = Other(PlayerColor(session[last.game], last.conn))
        /\ session[last.game].elapsed = 0

\* C6: every step that changes lobby, games, waiting_games, spectators or a
\* session is taken by a thread holding the coordination lock.  (The passing
\* of time is no step of a thread.)
C6_MutationsUnderLock ==
    [][(registry' /= registry \/ (last'.op /= "tick" /\ session' /= session)) => last'.locked]_vars

SessionEndOps == {"move_cleanup", "quit_game", "disconnect_seated"}

\* C7: after a session with both seats taken ended (terminal position,
\* quit_game or disconnect of a seated player) it is referenced from none of
\* games, waiting_games, spectators.
C7_EndedSessionUnreferenced ==
    (last.op \in SessionEndOps /\ BothSeated(last.game)) =>
        /\ ~ InGames(last.game)
        /\ ~ InSeq(waiting_games, last.game)
        /\ \A k \in Conns : spectators[k] /= last.game

\* C8: after the cleanup that follows a terminal position in a session with
\* both seats taken, each of the two players is in the lobby list once when it
\* is still connected, and not at all when its handler has finished its
\* disconnect cleanup.
C8_ReturnedToLobbyOnce ==
    (last.op \in {"move_cleanup", "move_cleanup_raised"} /\ BothSeated(last.game)) =>
        \A c \in {session[last.game].white_conn, session[last.game].black_conn} :
            Count(lobby, c) = IF c \in closed THEN 0 ELSE 1

JoinRejectOps == {"join_not_found", "join_bad_password"}

\* C9: a refused join_game (id not in waiting_games, or private session and a
\* password other than the stored one) changes no registry mapping and no
\* session: the target stays in waiting_games with its black seat empty, the
\* caller stays in the lobby, and one message, an error, goes to the caller.
C9_RejectedJoinChangesNothing ==
    [][last'.op \in JoinRejectOps =>
          /\ registry' = registry
          /\ session' = session
          /\ Len(out') = 1 /\ out'[1].to = last'.conn /\ out'[1].type = "error"
          /\ InSeq(lobby', last'.conn)
          /\ games'[last'.conn] = None
          /\ last'.op = "join_not_found" => ~ InSeq(waiting_games, last'.game)
          /\ last'.op = "join_bad_password" =>
                /\ InSeq(waiting_games', last'.game)
                /\ session'[last'.game].black_conn = None
                /\ session[last'.game].is_private
                /\ last'.arg /= session[last'.game].password
      ]_vars

\* A join with a wrong password was refused; the session is still waiting.
C9_Witness ==
    /\ last.op = "join_bad_password"
    /\ InSeq(waiting_games, last.game)
    /\ session[last.game].black_conn = None
    /\ session[last.game].password = "pw" /\ last.arg = "bad"
    /\ InSeq(lobby, last.conn) /\ games[last.conn] = None

\* C10: after a successful join_game the caller holds the black seat, the
\* session is not in waiting_games, games maps the creator and the caller to
\* the session, and the caller is not in the lobby.
C10_JoinSeatsBoth ==
    last.op = "join_game" =>
        /\ session[last.game].black_conn = last.conn
        /\ ~ InSeq(waiting_games, last.game)
        /\ games[session[last.game].creator_conn] = last.game
        /\ games[last.conn] = last.game
        /\ ~ InSeq(lobby, last.conn)

\* C11: when a join_game has made a session Active, its turn is White and its
\* board is the initial position (the turn the start messages announce is
\* White), whatever happened while the session was waiting.
C11_ActiveStartsFresh ==
    last.op = "join_game" =>
        /\ session[last.game].turn = WHITE
        /\ session[last.game].board = InitialBoard
        /\ \A i \in 1..Len(out) : out[i].type = "turn" => out[i].turn = session[last.game].turn

\* C12: a scan of the timer thread passes the turn of every session with both
\* seats taken whose time since the last move is over the limit, once, sets
\* that time to zero and leaves the board as it was, so that the next scan
\* finds the session within the limit; a session within the limit is left as
\* it was.
C12_TimeoutFlipsOnce ==
    [][last'.op = "timeout" =>
          \A g \in GameIds :
             /\ (InGames(g) /\ BothSeated(g) /\ session[g].elapsed > MOVE_TIMEOUT_SECONDS) =>
                   /\ g \in last'.arg
                   /\ session'[g].turn = Other(session[g].turn)
                   /\ session'[g].elapsed = 0
                   /\ session'[g].board = session[g].board
             /\ session[g].elapsed <= MOVE_TIMEOUT_SECONDS => session'[g] = session[g]
      ]_vars

\* A scan has passed the turn of a session with both seats taken from White to
\* Black; the board still has White to move.
C12_Witness ==
    /\ last.op = "timeout"
    /\ \E g \in last.arg :
          /\ BothSeated(g)
          /\ session[g].turn = BLACK
          /\ session[g].elapsed = 0
          /\ session[g].board = InitialBoard

\* C13: a scan of the timer thread that handles timeouts ends no session: it
\* leaves lobby, games, waiting_games and spectators as they were (a session
\* games mapped both players to is still mapped by both, nobody enters the
\* lobby), leaves the seats of every session as they were, and sends no
\* game_over.
C13_TimeoutEndsNothing ==
    [][last'.op = "timeout" =>
          /\ registry' = registry
          /\ \A i \in 1..Len(out') : out'[i].type /= "game_over"
          /\ \A g \in GameIds :
                /\ session'[g].white_conn = session[g].white_conn
                /\ session'[g].black_conn = session[g].black_conn
                /\ session'[g].players = session[g].players
                /\ (BothSeated(g) /\ games[session[g].white_conn] = g /\ games[session[g].black_conn] = g) =>
                      games'[session'[g].white_conn] = g /\ games'[session'[g].black_conn] = g
      ]_vars

\* A timeout has passed the turn of a two-seat session back to White on the
\* initial position, after an earlier timeout had passed it to Black; games
\* still maps both players to the session and neither is in the lobby.
C13_Witness ==
    /\ last.op = "timeout"
    /\ \E g \in last.arg :
          /\ BothSeated(g)
          /\ session[g].turn = WHITE
          /\ session[g].board = InitialBoard
          /\ games[session[g].white_conn] = g /\ games[session[g].black_conn] = g
          /\ ~ InSeq(lobby, session[g].white_conn) /\ ~ InSeq(lobby, session[g].black_conn)
          /\ \E i \in 1..Len(out) : out[i].type = "timeout_sync" /\ out[i].timeout_player = BLACK

\* The connections a session broadcasts to: its seats and its spectator list.
Recipients(g) ==
    ({session[g].white_conn, session[g].black_conn} \ {None})
        \cup {session[g].spectators[i] : i \in 1..Len(session[g].spectators)}

\* The messages of the last step addressed to r, in the order they were sent.
SentTo(r) == SelectSeq(out, LAMBDA x : x.to = r)

\* The place of a timeout message in the order notice, timeout_sync, board, turn.
TimeoutRank(x) ==
    IF x.type = "info" THEN 1 ELSE IF x.type = "timeout_sync" THEN 2
    ELSE IF x.type = "board" THEN 3 ELSE IF x.type = "turn" THEN 4 ELSE 0

\* C14: after a scan that handled a timeout of a session, every open recipient
\* of that session (and of no other session timed out in the same scan) has
\* been sent, and nothing else, in this order: the notice naming the side that
\* timed out, timeout_sync with the board, the timed-out side and the new side
\* to move, then the board and the turn update; next_turn and turn are the
\* session's turn after the switch.
C14_TimeoutMessageOrder ==
    last.op = "timeout" =>
        \A g \in last.arg : \A r \in Recipients(g) :
            (CanSend(r) /\ \A h \in last.arg \ {g} : r \notin Recipients(h)) =>
                LET q == SentTo(r) IN
                /\ \A k \in 1..4 : \E i \in 1..Len(q) : TimeoutRank(q[i]) = k
                /\ \A i \in 1..Len(q) : TimeoutRank(q[i]) \in 1..4
                /\ \A i, j \in 1..Len(q) : i < j => TimeoutRank(q[i]) <= TimeoutRank(q[j])
                /\ \A i \in 1..Len(q) :
                      /\ q[i].type = "info" =>
                            q[i].msg = "took_too_long" /\ q[i].color = Other(session[g].turn)
                      /\ q[i].type = "timeout_sync" =>
                            /\ q[i].board = session[g].board
                            /\ q[i].timeout_player = Other(session[g].turn)
                            /\ q[i].next_turn = session[g].turn
                      /\ q[i].type = "board" => q[i].board = session[g].board
                      /\ q[i].type = "turn" =>
                            q[i].turn = session[g].turn /\ q[i].status = "active"

\* A timeout was handled in a session with two open players and an open
\* spectator, each of whom was sent the four messages.
C14_Witness ==
    /\ last.op = "timeout"
    /\ \E g \in last.arg :
          /\ BothSeated(g)
          /\ session[g].white_conn /= session[g].black_conn
          /\ session[g].spectators /= <<>>
          /\ \A r \in Recipients(g) : CanSend(r) /\ Len(SentTo(r)) = 4

\* C15: a connection is in at most one of the lobby list, the keys of games
\* and the keys of spectators.
C15_OneRegistryPerConnection ==
    \A c \in Conns :
        (IF InSeq(lobby, c) THEN 1 ELSE 0) + (IF games[c] /= None THEN 1 ELSE 0)
            + (IF spectators[c] /= None THEN 1 ELSE 0) <= 1

\* The connections games maps to session g.
GameKeys(g) == {k \in Conns : games[k] = g}

\* C16: a live session is either in waiting_games and then no key of games
\* maps to it, or not in waiting_games and then exactly its two seated
\* connections are the keys of games that map to it.
C16_WaitingOrTwiceInGames ==
    \A g \in LiveSessions :
        \/ InSeq(waiting_games, g) /\ GameKeys(g) = {}
        \/ /\ ~ InSeq(waiting_games, g)
           /\ session[g].white_conn /= session[g].black_conn
           /\ GameKeys(g) = {session[g].white_conn, session[g].black_conn}

\* The steps a quit_game message of a seated player is handled in.
QuitOps == {"quit_notify", "quit_raised", "quit_game", "quit_lock_raised"}

\* C17: a quit_game of a player of a session with both seats taken is handled
\* to the end: the notification step sends the quit game_over to the opponent
\* and to the spectators whose sockets are open and goes on to the lock
\* section also when the opponent's socket is closed; after the lock section
\* the quitting connection is open, in the lobby and reading on, no key of
\* games maps to the session, and the opponent is in the lobby when it is open.
C17_QuitReturnsToLobby ==
    (last.op \in QuitOps /\ BothSeated(last.game)) =>
        LET s == session[last.game]
            opponent == Opponent(s, last.conn)
        IN  /\ last.op \notin {"quit_raised", "quit_lock_raised"}
            /\ last.conn \notin closed
            /\ last.op = "quit_notify" =>
                  /\ pc[last.conn] = "quit_lock"
                  /\ \A r \in (Recipients(last.game) \ {last.conn}) :
                        CanSend(r) => \E i \in 1..Len(out) :
                            out[i].to = r /\ out[i].type = "game_over" /\ out[i].reason = "quit"
            /\ last.op = "quit_game" =>
                  /\ pc[last.conn] = "loop"
                  /\ InSeq(lobby, last.conn)
                  /\ ~ InGames(last.game)
                  /\ CanSend(opponent) => InSeq(lobby, opponent)

\* C18: when the handler of a connection that holds a seat of a live session
\* with both seats taken, by two connections, runs its disconnect cleanup,
\* then afterwards the opponent, when its socket is open, has been sent
\* game_over with reason disconnection and is in the lobby; the disconnected
\* connection is in none of lobby, games, spectators; and the session is
\* referenced from none of games, waiting_games, spectators.
C18_DisconnectEndsSession ==
    [][\A c \in Conns, g \in GameIds :
          (/\ last'.op \in {"disconnect", "disconnect_seated"}
           /\ last'.conn = c
           /\ g \in LiveSessions
           /\ BothSeated(g)
           /\ session[g].white_conn /= session[g].black_conn
           /\ c \in {session[g].white_conn, session[g].black_conn}) =>
              LET opponent == Opponent(session[g], c) IN
              /\ opponent \notin closed' =>
                    /\ \E i \in 1..Len(out') :
                          /\ out'[i].to = opponent
                          /\ out'[i].type = "game_over"
                          /\ out'[i].reason = "disconnection"
                    /\ InSeq(lobby', opponent)
              /\ ~ InSeq(lobby', c)
              /\ games'[c] = None
              /\ spectators'[c] = None
              /\ \A k \in Conns : games'[k] /= g /\ spectators'[k] /= g
              /\ ~ InSeq(waiting_games', g)
      ]_vars

\* C19: in every state in which a player of a session with both seats taken,
\* held by two connections, is reading its next message, the quit_game
\* teardown and the disconnect teardown of that player leave the same games,
\* the same waiting_games, the same spectators and the opponent in the lobby
\* list the same number of times.
C19_QuitAndDisconnectAgree ==
    \A c \in Conns :
        (/\ InGameAsPlayer(c)
         /\ BothSeated(games[c])
         /\ session[games[c]].white_conn /= session[games[c]].black_conn
         /\ c \in {session[games[c]].white_conn, session[games[c]].black_conn}) =>
            LET s == session[games[c]]
                opponent == Opponent(s, c)
                quit == QuitTeardown(c, s, opponent)
                disc == DisconnectTeardown(c)
            IN  /\ quit.games = disc.games
                /\ quit.waiting_games = disc.waiting_games
                /\ quit.spectators = disc.spectators
                /\ Count(quit.lobby, opponent) = Count(disc.lobby, opponent)

\* C20: in a session with both seats taken, (a) the turn switch after a move
\* that left a terminal position announces status ended and is followed by the
\* cleanup, (b) after the cleanup neither seat is a key of games and each seat
\* whose socket is open is in the lobby, and (c) no move is applied to a board
\* that is already in a terminal position.
C20_TerminalMoveEndsSession ==
    [][/\ (last'.op = "move_next_turn" /\ BothSeated(last'.game)
             /\ IsTerminal(session'[last'.game].board)) =>
            /\ pc'[last'.conn] = "move_cleanup"
            /\ \A i \in 1..Len(out') : out'[i].type = "turn" => out'[i].status = "ended"
       /\ (last'.op \in {"move_cleanup", "move_cleanup_raised"} /\ BothSeated(last'.game)) =>
            \A c \in {session[last'.game].white_conn, session[last'.game].black_conn} :
                /\ games'[c] = None
                /\ c \notin closed' => InSeq(lobby', c)
       /\ (last'.op = "move_pushed" /\ BothSeated(last'.game)) =>
            ~ IsTerminal(session[last'.game].board)
      ]_vars

\* The characters of the stream the client has read so far.
ReadSoFar == Len(Concat(stream)) - Len(unread)

\* The messages of the stream whose last character has been read.
Arrived == {i \in 1..Len(stream) : Len(Concat(SubSeq(stream, 1, i))) <= ReadSoFar}

\* C21: however the stream of well-formed messages is cut into reads, the
\* decoder has handed on exactly the messages whose last character has been
\* read, each once, in order, with the value it was sent with.
C21_ChunkingIndependent ==
    yielded = [i \in 1..Cardinality(Arrived) |-> JsonLoads(stream[i])]

\* The steps in which the server handles what one conn.recv returned without
\* taking it as one message of the protocol.
ReadOps == {"recv_raised", "recv_untyped_raised", "recv_untyped_ignored"}

\* C22: a read in the main loop of the server that returns two client
\* messages sent in a row, or the first part of a message whose rest arrives
\* with the next read, does not end the handler: the connection stays open and
\* its handler goes on reading.
C22_ServerDecodesStream ==
    (/\ last.op \in ReadOps
     /\ last.arg \in {"two_messages", "first_part"}
     /\ assigned_role[last.conn] /= None) =>
        /\ pc[last.conn] = "loop"
        /\ last.conn \notin closed

\* C23: a read in the main loop of the server that is no JSON, or a JSON
\* object that is no message of the protocol (no "type" member), does not end
\* the handler: the connection stays open, its handler goes on reading, and no
\* registry mapping and no session is changed.
C23_MalformedNotFatal ==
    [][(/\ last'.op \in ReadOps
        /\ last'.arg \in {"no_json", "one_message"}
        /\ assigned_role[last'.conn] /= None) =>
          /\ pc'[last'.conn] = "loop"
          /\ last'.conn \notin closed'
          /\ registry' = registry
          /\ session' = session
      ]_vars

\* The steps that consist of calls of GameSession.broadcast, and the types of
\* the messages each of them broadcasts whatever the position.
BroadcastOps == {"move_pushed", "move_next_turn"}
BroadcastTypes(op) == IF op = "move_pushed" THEN {"move"} ELSE {"turn", "board"}

\* The times connection r is a recipient of session s: as a seat, as a spectator.
Occurrences(s, r) ==
    (IF s.white_conn = r THEN 1 ELSE 0) + (IF s.black_conn = r THEN 1 ELSE 0)
        + Count(s.spectators, r)

\* The messages of type t among q that were sent to r.
Got(q, r, t) == Cardinality({i \in 1..Len(q) : q[i].to = r /\ q[i].type = t})

\* C24: a broadcast of a session sends the message to every recipient whose
\* socket is open, once for each time it is a seat or a spectator of the
\* session, whichever other recipients are closed or empty seats; the caller
\* goes on (nothing is raised to it); and the seats, the spectator list and
\* the four registry mappings are as they were.
C24_BroadcastReachesOpen ==
    [][last'.op \in BroadcastOps =>
          LET s == session'[last'.game] IN
          /\ \A r \in Conns : \A t \in BroadcastTypes(last'.op) :
                Got(out', r, t) = IF r \in closed THEN 0 ELSE Occurrences(s, r)
          /\ pc'[last'.conn] \in {"move_next_turn", "move_cleanup", "loop"}
          /\ s.white_conn = session[last'.game].white_conn
          /\ s.black_conn = session[last'.game].black_conn
          /\ s.spectators = session[last'.game].spectators
          /\ registry' = registry
      ]_vars

\* A move was broadcast in a session whose black seat is empty and whose
\* spectator is open: the send to the empty seat failed, the spectator and the
\* player were sent the move.
C24_Witness ==
    /\ last.op = "move_pushed"
    /\ session[last.game].black_conn = None
    /\ \E r \in Conns :
          /\ InSeq(session[last.game].spectators, r)
          /\ CanSend(r)
          /\ Got(out, r, "move") = 1
    /\ Got(out, session[last.game].white_conn, "move") = 1

\* The lobby state a lobby_update has to carry in the state reached: the
\* lobby list, and the waiting sessions with their creator and whether a
\* password was given when they were created.
LobbyStateNow(lob, wg, ss) ==
    [type |-> "lobby_update",
     players |-> lob,
     available_games |-> [i \in 1..Len(wg) |->
        [id |-> wg[i], creator |-> ss[wg[i]].creator_conn, is_private |-> ss[wg[i]].password /= None]]]

\* The steps after which the lobby state is to be broadcast: create_game, a
\* join_game that seated the caller, quit_game, the end of a session, and the
\* disconnect of a seated player or of a player the registries referred to.
LobbyTriggerOps == {"create_game", "join_game", "join_game_raised", "quit_game",
                    "move_cleanup", "move_cleanup_raised", "disconnect_seated"}

\* C25: (a) every lobby_update names, for each waiting session it lists, the
\* session's creator and is_private true iff a password was given at creation,
\* and the last lobby_update a step sends to a connection carries the lobby
\* list and the waiting sessions as the step leaves them; (b) after create_game, a join_game that
\* seated the caller, quit_game, the end of a session and the disconnect of a
\* lobby member, creator or seated player, every lobby member whose socket is
\* open has been sent that lobby_update.
C25_LobbyUpdateContentAndTrigger ==
    [][/\ \A i \in 1..Len(out') :
            out'[i].type = "lobby_update" =>
                /\ \A k \in 1..Len(out'[i].available_games) :
                      LET e == out'[i].available_games[k] IN
                      /\ e.creator = session'[e.id].creator_conn
                      /\ e.is_private = (session'[e.id].password /= None)
                /\ (\A j \in (i + 1)..Len(out') : out'[j].type /= "lobby_update" \/ out'[j].to /= out'[i].to) =>
                      out'[i] = [to |-> out'[i].to] @@ LobbyStateNow(lobby', waiting_games', session')
       /\ (\/ last'.op \in LobbyTriggerOps
           \/ last'.op = "disconnect" /\ registry' /= registry) =>
             \A c \in Conns :
                (InSeq(lobby', c) /\ c \notin closed') =>
                    \E i \in 1..Len(out') :
                        out'[i] = [to |-> c] @@ LobbyStateNow(lobby', waiting_games', session')
      ]_vars

\* What a connection that has not supplied a password may learn of a session:
\* its id, its creator and whether a password was given when it was created.
View(s) == [creator |-> s.creator_conn, private |-> s.password /= None]

\* The fields a message of each type carries when it is built from the views
\* of the sessions only.
ViewFields(type) ==
    IF type = "lobby_update" THEN {"to", "type", "players", "available_games"}
    ELSE IF type = "error" THEN {"to", "type", "msg", "id"}
    ELSE IF type = "game_over" THEN {"to", "type", "result", "reason"}
    ELSE IF type = "turn" THEN {"to", "type", "turn", "status", "time_limit"}
    ELSE IF type = "board" THEN {"to", "type", "board"}
    ELSE IF type = "move" THEN {"to", "type", "move", "board"}
    ELSE IF type = "timeout_sync" THEN {"to", "type", "timeout_player", "board", "next_turn"}
    ELSE {"to", "type", "msg", "id", "color", "private_msg", "winner", "active_games"}

\* C26: apart from the outcome of a join_game, the value of a session's
\* password has no part in any message: every message of every step is the
\* message built from the views of the sessions, which hold whether a password
\* was given and not its value.  A lobby_update lists each waiting session
\* with its view; the reply to create_game says private iff a password was
\* given; no message has a field beyond those of its type.
C26_PasswordValueNotInMessages ==
    [][\A i \in 1..Len(out') :
          LET m == out'[i] IN
          /\ DOMAIN m \subseteq ViewFields(m.type)
          /\ m.type = "lobby_update" =>
                \A k \in 1..Len(m.available_games) :
                    LET e == m.available_games[k] IN
                    e = [id |-> e.id, creator |-> View(session'[e.id]).creator,
                         is_private |-> View(session'[e.id]).private]
          /\ (m.type = "info" /\ m.msg = "created") =>
                m.private_msg = View(session'[m.id]).private
      ]_vars

\* C27: after a join as spectator of a game id, when a session with that id
\* is live (in waiting_games or referred to by games) the connection is bound
\* to it (in spectators and in the session's spectator list) and has been
\* sent, alone, the spectating notice, the current board and the current
\* turn; when no session with that id is live the connection is bound to
\* nothing and has been sent, alone, the not-found reply with the ids of the
\* live sessions.
C27_SpectatorBoundIffSessionExists ==
    last.op \in {"spectate", "spectate_not_found"} =>
        LET c == last.conn
            g == last.game
        IN  /\ \A i \in 1..Len(out) : out[i].to = c
            /\ IF g \in LiveSessions
               THEN /\ spectators[c] = g
                    /\ InSeq(session[g].spectators, c)
                    /\ \A h \in GameIds \ {g} : ~ InSeq(session[h].spectators, c)
                    /\ \E i \in 1..Len(out) :
                          out[i].type = "board" /\ out[i].board = session[g].board
                    /\ \E i \in 1..Len(out) :
                          out[i].type = "turn" /\ out[i].turn = session[g].turn
               ELSE /\ spectators[c] = None
                    /\ \A h \in GameIds : ~ InSeq(session[h].spectators, c)
                    /\ Len(out) = 1
                    /\ out[1].msg = "not_found"
                    /\ out[1].active_games = LiveSessions

\* The registries a connection can be in.
InRegistries(c) ==
    \/ InSeq(lobby, c)
    \/ games[c] /= None
    \/ spectators[c] /= None
    \/ \E g \in GameIds : InSeq(waiting_games, g) /\ session[g].creator_conn = c

\* C28: (a) the step that finds a first message that is no join sends the
\* connection one message, an error, closes it and ends its handler, and
\* changes no registry and no session; (b) a connection that never sent a join
\* (it has no role) is in none of lobby, games, waiting_games, spectators, and
\* no session has it as a seat or spectator; (c) every step that handles a
\* message other than the first is taken by a connection whose join has been
\* processed (it has a role).
C28_FirstMessageMustBeJoin ==
    [][/\ last'.op = "first_not_join" =>
            /\ out' = <<[to |-> last'.conn, type |-> "error", msg |-> "first_message_must_be_join"]>>
            /\ last'.conn \in closed'
            /\ pc'[last'.conn] = "done"
            /\ registry' = registry
            /\ session' = session
       /\ \A c \in Conns :
            assigned_role'[c] = None =>
                /\ ~ InRegistries(c)'
                /\ \A g \in GameIds : Occurrences(session'[g], c) = 0
       /\ (last'.conn /= None
           /\ last'.op \notin {"join_player", "spectate", "spectate_not_found",
                               "first_not_join", "recv_raised", "disconnect_no_role"}) =>
             assigned_role[last'.conn] /= None
      ]_vars

\* A connection sent something else than a join first and was closed, while
\* another connection is in the lobby.
C28_Witness ==
    /\ last.op = "first_not_join"
    /\ last.conn \in closed
    /\ assigned_role[last.conn] = None
    /\ lobby /= <<>>
    /\ ~ InRegistries(last.conn)

\* The live sessions connection c holds a seat of.
SeatsOf(c) == {g \in LiveSessions : session[g].white_conn = c \/ session[g].black_conn = c}

\* C29: (a) a create_game or join_game that takes effect comes from a
\* connection that is in the lobby, holds no seat of a live session and is no
\* spectator; (b) one sent by a connection outside the lobby changes no
\* registry mapping and no session; (c) no connection holds seats of two live
\* sessions.
C29_LobbyOpsOnlyFromLobby ==
    [][/\ last'.op \in {"create_game", "join_game", "join_game_raised"} =>
            /\ InSeq(lobby, last'.conn)
            /\ SeatsOf(last'.conn) = {}
            /\ spectators[last'.conn] = None
       /\ last'.op = "lobby_op_ignored" =>
            /\ registry' = registry
            /\ session' = session
       /\ \A c \in Conns : Cardinality(SeatsOf(c)') <= 1
      ]_vars

\* C30: a scan of the timer thread leaves the turn and the time since the
\* last move of every session whose black seat is still empty (a session
\* waiting for an opponent) as they were.
C30_WatchdogLeavesWaitingSessions ==
    [][last'.op = "timeout" =>
          \A g \in GameIds :
              ~ BothSeated(g) =>
                  /\ session'[g].turn = session[g].turn
                  /\ session'[g].elapsed = session[g].elapsed
      ]_vars

\* C31: a session in waiting_games has its white seat taken by its creator and
\* its black seat empty; a session that has left waiting_games and is still
\* referred to by games has both seats taken, by two different connections.
C31_SeatsOfWaitingAndActive ==
    \A g \in LiveSessions :
        IF InSeq(waiting_games, g)
        THEN /\ session[g].white_conn /= None
             /\ session[g].white_conn = session[g].creator_conn
             /\ session[g].black_conn = None
        ELSE /\ session[g].white_conn /= None
             /\ session[g].black_conn /= None
             /\ session[g].white_conn /= session[g].black_conn

\* C32: a step taken by a thread that holds the coordination lock sends
\* nothing: no message is written to a socket inside a lock-held section.
C32_NoSendUnderLock == last.locked => out = <<>>

\* The characters the socket.recv of a step of receive_data returned, and the
\* buffer the scan of that step starts on.
ReadNow == SubSeq(unread, 1, Len(unread) - Len(unread'))
Scanned == buffer \o ReadNow

\* C33: when the buffer a read leaves to the scan starts with a well-formed
\* message (an object json.loads accepts), whatever follows it, the scan
\* finds the end of that message: its closing brace, braces and escaped
\* quotes inside its strings notwithstanding.
C33_BoundaryIgnoresQuoted ==
    [][\A k \in 1..Len(Scanned) :
          (Scanned[1] = "{" /\ Scanned[k] = "}" /\ IsJson(SubSeq(Scanned, 1, k)))
              => MsgEnd(Scanned) = k
      ]_vars

\* A message with a brace in a string and one with an escaped quote arrived in
\* one read and were both handed on.
C33_Witness ==
    /\ stream = <<TextBrace, TextEscape>>
    /\ unread = <<>>
    /\ buffer = <<>>
    /\ yielded = <<JsonLoads(TextBrace), JsonLoads(TextEscape)>>

\* ------------------------------------------------------------------ malformed input

\* The stream decoder fed a stream in which a span that is no JSON (its
\* braces balance, json.loads rejects it) may stand among the messages.
NoisyStreams == UNION {[1..n -> Texts \cup NoJson] : n \in 1..MaxStream}

InitNoisy ==
    /\ InitWith(0)
    /\ stream \in NoisyStreams
    /\ unread = Concat(stream)
    /\ buffer = <<>>
    /\ yielded = <<>>

NextNoisy == \E n \in 1..MaxRead : receive_data(n)

SpecNoisy == InitNoisy /\ [][NextNoisy]_vars

\* The buffer starts with a complete well-formed message.
HeadComplete(buf) ==
    \E k \in 1..Len(buf) : buf[1] = "{" /\ buf[k] = "}" /\ IsJson(SubSeq(buf, 1, k))

\* C34: a read leaves no complete well-formed message at the head of the
\* buffer: it is handed on in the read in which its last character arrived,
\* also when a span before it in the buffer failed to parse.
C34_CompleteMessageNotLeftBehind == ~ HeadComplete(buffer)

\* ------------------------------------------------------------------ input that completes no message

\* An opening brace that is never closed, and text after it.
Flood == [i \in 1..FloodLen |-> IF i = 1 THEN "{" ELSE "x"]

InitFlood ==
    /\ InitWith(0)
    /\ stream = <<Flood>>
    /\ unread = Flood
    /\ buffer = <<>>
    /\ yielded = <<>>

\* Every read is full, or one character short of it.
NextFlood == \E n \in {MaxRead - 1, MaxRead} : receive_data(n)

SpecFlood == InitFlood /\ [][NextFlood]_vars

\* C35: the buffer the decoder keeps between reads stays bounded, by the
\* length over which it is emptied and one read, whatever the stream: input
\* that never completes a message does not pile up beyond that.
C35_BufferBounded == Len(buffer) <= BufferCeiling + MaxRead

\* The steps of the move path of handle_client.
MoveOps == {"move_turn_ok", "move_not_your_turn", "move_malformed", "move_illegal",
            "move_pushed", "move_next_turn", "move_cleanup", "move_cleanup_raised"}

\* C36: a step of the move path taken for the creator of a session that is
\* still in waiting_games (no second player has joined) leaves the board and
\* the turn of that session as they were.
C36_NoMoveInWaitingSession ==
    [][(/\ last'.op \in MoveOps
        /\ InSeq(waiting_games, last'.game)
        /\ last'.conn = session[last'.game].creator_conn)
          => /\ session'[last'.game].board = session[last'.game].board
             /\ session'[last'.game].turn = session[last'.game].turn
      ]_vars

\* A session that left waiting_games with both seats taken, whose two players
\* are keys of games for it and are connected, their handlers reading the
\* next message.
ActiveConnected(g) ==
    /\ ~ InSeq(waiting_games, g)
    /\ BothSeated(g)
    /\ \A c \in {session[g].white_conn, session[g].black_conn} : games[c] = g /\ pc[c] = "loop"

\* The move branch would apply the move text m sent by c now: c is a key of
\* games, the turn test passes, the text is a move and the move is legal.
WouldAccept(c, m) ==
    /\ InGameAsPlayer(c)
    /\ IsTurnOf(session[games[c]], c)
    /\ WellFormed(m)
    /\ m \in LegalMoves(session[games[c]].board)

\* C37: in a session with both seats taken, both players connected and a
\* position that is not terminal, the player whose turn it is has a move the
\* server would accept.
C37_PlayerToMoveCanMove ==
    \A g \in GameIds :
        (ActiveConnected(g) /\ ~ IsTerminal(session[g].board))
            => \E m \in MoveTexts : WouldAccept(session[g].players[session[g].turn], m)

\* The connection is in the lobby, a key of games or spectators, or the
\* creator or a seat of a session still in waiting_games or games.
Referenced(c) ==
    \/ InSeq(lobby, c)
    \/ games[c] /= None
    \/ spectators[c] /= None
    \/ \E g \in LiveSessions :
          c \in {session[g].creator_conn, session[g].white_conn, session[g].black_conn}

\* C38: a connection whose handler has finished its disconnect cleanup is
\* referenced nowhere, then and ever after.
C38_DisconnectedUnreferenced == \A c \in Conns : pc[c] = "done" => ~ Referenced(c)

\* C39: for every session still in waiting_games or games, a connection is in
\* the session's spectator list exactly when spectators maps it to that
\* session.
C39_SpectatorListMatchesRegistry ==
    \A g \in LiveSessions : \A c \in Conns :
        InSeq(session[g].spectators, c) <=> spectators[c] = g

====
